---- MODULE Spec2Model ----
(***************************************************************************)
(* The drinks catalogue of src/app/main.py: the DrinkBase validation       *)
(* rules, the file-backed DrinkStorage and the three /menu routes.         *)
(*                                                                         *)
(* Strings are sequences of one-character strings, so that strip() and     *)
(* lower() are computed.  Prices are kept in tenths (2.5 is 25).  The      *)
(* backing file is a sequence of JSON tokens: json.dump and json.load are  *)
(* computed on it, and a write lands at offset 0 of whatever the file      *)
(* holds at that moment, as a descriptor opened with mode 'w' does.        *)
(* A read of an existing file is assumed not to fail for I/O reasons; a    *)
(* write may fail at open() or at the dump.                                *)
(***************************************************************************)
EXTENDS Integers, Sequences, FiniteSets, TLC

\* Most POST requests that pass validation in one behaviour.
MaxAdds == 2

\* The stores that are alive at the same time.
Inst == {1, 2}

VARIABLES
    file,      \* the backing document: [exists, content]
    testPath,  \* data_file.startswith("test_")
    pc,        \* per instance: where its current call stands
    drinks,    \* per instance: self.drinks
    next_id,   \* per instance: self.next_id
    wrote,     \* per instance: its latest save_data reached the file
    out,       \* the HTTP response being sent, NoResponse when none is
    adds       \* accepted POST requests so far (bounds the behaviour)

vars == <<file, testPath, pc, drinks, next_id, wrote, out, adds>>

----------------------------------------------------------------------------
\* Strings

Espresso == <<"E","s","p","r","e","s","s","o">>
Latte == <<"L","a","t","t","e">>
Cappuccino == <<"C","a","p","p","u","c","c","i","n","o">>
Americano == <<"A","m","e","r","i","c","a","n","o">>
TestEspresso == <<"T","e","s","t"," ">> \o Espresso
TestLatte == <<"T","e","s","t"," ">> \o Latte

\* str.lower(), one character
LowerChar(c) ==
    CASE c = "A" -> "a"
      [] c = "C" -> "c"
      [] c = "E" -> "e"
      [] c = "L" -> "l"
      [] c = "T" -> "t"
      [] OTHER -> c

\* str.lower()
Lower(s) == [k \in 1..Len(s) |-> LowerChar(s[k])]

RECURSIVE LStrip(_)
LStrip(s) ==
    IF s # <<>> /\ Head(s) = " " THEN LStrip(Tail(s)) ELSE s

RECURSIVE RStrip(_)
RStrip(s) ==
    IF s # <<>> /\ s[Len(s)] = " " THEN RStrip(SubSeq(s, 1, Len(s) - 1)) ELSE s

\* str.strip()
Strip(s) == RStrip(LStrip(s))

----------------------------------------------------------------------------
\* The persisted document: json.dump and json.load

Sym(s) == [k |-> "sym", s |-> s, n |-> 0]
Key(s) == [k |-> "key", s |-> s, n |-> 0]
Chr(c) == [k |-> "chr", s |-> c, n |-> 0]
Num(n) == [k |-> "num", s |-> "", n |-> n]

JsonString(s) ==
    <<Sym("quote")>> \o [k \in 1..Len(s) |-> Chr(s[k])] \o <<Sym("quote")>>

JsonDrink(d) ==
    <<Sym("{"), Key("id"), Num(d.id), Key("name")>> \o JsonString(d.name)
        \o <<Key("size")>> \o JsonString(d.size)
        \o <<Key("price"), Num(d.price), Sym("}")>>

RECURSIVE JsonList(_)
JsonList(ds) ==
    IF ds = <<>> THEN <<>> ELSE JsonDrink(Head(ds)) \o JsonList(Tail(ds))

\* A mutant of JsonDump: the counter is not written.
JsonDumpNoCounter(ds, n) ==
    <<Sym("{"), Key("drinks"), Sym("[")>> \o JsonList(ds) \o <<Sym("]"), Sym("}")>>

\* json.dump({'drinks': self.drinks, 'next_id': self.next_id}, f)
JsonDump(ds, n) ==
    <<Sym("{"), Key("drinks"), Sym("[")>> \o JsonList(ds)
        \o <<Sym("]"), Key("next_id"), Num(n), Sym("}")>>

ParseFail == [ok |-> FALSE, val |-> <<>>, next |-> 0]

RECURSIVE ScanChars(_, _, _)
ScanChars(toks, p, acc) ==
    IF p > Len(toks) THEN ParseFail
    ELSE IF toks[p] = Sym("quote") THEN [ok |-> TRUE, val |-> acc, next |-> p + 1]
    ELSE IF toks[p].k = "chr" THEN ScanChars(toks, p + 1, Append(acc, toks[p].s))
    ELSE ParseFail

ParseString(toks, p) ==
    IF p <= Len(toks) /\ toks[p] = Sym("quote")
    THEN ScanChars(toks, p + 1, <<>>)
    ELSE ParseFail

ParseDrink(toks, p) ==
    IF ~(/\ p + 3 <= Len(toks)
         /\ toks[p] = Sym("{")
         /\ toks[p + 1] = Key("id")
         /\ toks[p + 2].k = "num"
         /\ toks[p + 3] = Key("name"))
    THEN ParseFail
    ELSE LET nm == ParseString(toks, p + 4) IN
         IF ~(nm.ok /\ nm.next <= Len(toks) /\ toks[nm.next] = Key("size"))
         THEN ParseFail
         ELSE LET sz == ParseString(toks, nm.next + 1) IN
              IF ~(/\ sz.ok
                   /\ sz.next + 2 <= Len(toks)
                   /\ toks[sz.next] = Key("price")
                   /\ toks[sz.next + 1].k = "num"
                   /\ toks[sz.next + 2] = Sym("}"))
              THEN ParseFail
              ELSE [ok |-> TRUE,
                    val |-> [id |-> toks[p + 2].n, name |-> nm.val,
                             size |-> sz.val, price |-> toks[sz.next + 1].n],
                    next |-> sz.next + 3]

RECURSIVE ParseList(_, _, _)
ParseList(toks, p, acc) ==
    IF p > Len(toks) THEN ParseFail
    ELSE IF toks[p] = Sym("]") THEN [ok |-> TRUE, val |-> acc, next |-> p + 1]
    ELSE LET d == ParseDrink(toks, p) IN
         IF d.ok THEN ParseList(toks, d.next, Append(acc, d.val)) ELSE ParseFail

NotJson == [ok |-> FALSE, isdict |-> FALSE, has_drinks |-> FALSE, drinks |-> <<>>,
            has_next |-> FALSE, next_id |-> 0]

\* json.load(f): one value, then the end of the input.
JsonLoad(toks) ==
    IF toks = <<>> THEN NotJson
    ELSE IF toks[1] = Sym("[")
    THEN LET l == ParseList(toks, 2, <<>>) IN
         IF l.ok /\ l.next = Len(toks) + 1
         THEN [NotJson EXCEPT !.ok = TRUE]
         ELSE NotJson
    ELSE IF toks[1] # Sym("{") THEN NotJson
    ELSE LET hd == Len(toks) >= 3 /\ toks[2] = Key("drinks") /\ toks[3] = Sym("[")
             l  == IF hd THEN ParseList(toks, 4, <<>>)
                         ELSE [ok |-> TRUE, val |-> <<>>, next |-> 2]
         IN  IF ~l.ok THEN NotJson
             ELSE LET p  == l.next
                      hn == /\ p + 1 <= Len(toks)
                            /\ toks[p] = Key("next_id")
                            /\ toks[p + 1].k = "num"
                      e  == IF hn THEN p + 2 ELSE p
                  IN  IF e = Len(toks) /\ toks[e] = Sym("}")
                      THEN [ok |-> TRUE, isdict |-> TRUE, has_drinks |-> hd,
                            drinks |-> l.val, has_next |-> hn,
                            next_id |-> IF hn THEN toks[p + 1].n ELSE 0]
                      ELSE NotJson

\* f.write at offset 0 of a descriptor opened with 'w': what lies beyond the
\* written bytes stays.
Overwrite(old, new) ==
    IF Len(new) >= Len(old) THEN new
    ELSE new \o SubSeq(old, Len(new) + 1, Len(old))

----------------------------------------------------------------------------
\* DrinkBase: the validation of a creation input

Sizes == {<<"S">>, <<"M">>, <<"L">>}

\* name_must_not_be_empty is defined under a bare call field_validator('name')
\* (no '@'), so pydantic never runs it: what it would do to a name.
name_must_not_be_empty(v) ==
    IF v = <<>> \/ Strip(v) = <<>>
    THEN [ok |-> FALSE, val |-> v]
    ELSE [ok |-> TRUE, val |-> Strip(v)]

size_must_be_valid(v) == v \in Sizes

price_must_be_positive(v) == ~(v <= 0)

\* A mutant of ValidationErrors: validation stops at the first failing field.
ValidationErrorsFirstOnly(d) ==
    IF Len(d.name) < 1 THEN {"name"}
    ELSE IF ~size_must_be_valid(d.size) THEN {"size"}
    ELSE IF ~price_must_be_positive(d.price) THEN {"price"}
    ELSE {}

\* The fields pydantic reports for DrinkCreate(**d): every field is validated
\* and the errors are collected.  name is checked by min_length=1 alone.
ValidationErrors(d) ==
    {f \in {"name", "size", "price"} :
        \/ f = "name" /\ Len(d.name) < 1
        \/ f = "size" /\ ~size_must_be_valid(d.size)
        \/ f = "price" /\ ~(d.price > 0 /\ price_must_be_positive(d.price))}

\* The validated DrinkCreate: no registered validator changes a value.
DrinkCreate(d) == [name |-> d.name, size |-> d.size, price |-> d.price]

----------------------------------------------------------------------------
\* DrinkStorage

\* A mutant of DefaultDrinks: the test catalogue is empty.
DefaultDrinksEmptyTest(test) ==
    IF test THEN <<>>
    ELSE <<[id |-> 1, name |-> Espresso, size |-> <<"S">>, price |-> 25],
           [id |-> 2, name |-> Latte, size |-> <<"M">>, price |-> 35],
           [id |-> 3, name |-> Cappuccino, size |-> <<"M">>, price |-> 30],
           [id |-> 4, name |-> Americano, size |-> <<"L">>, price |-> 28]>>

\* A mutant of DefaultNextId: the counter restarts at the last seeded id.
DefaultNextIdReused(test) == IF test THEN 2 ELSE 4

DefaultDrinks(test) ==
    IF test
    THEN <<[id |-> 1, name |-> TestEspresso, size |-> <<"S">>, price |-> 20],
           [id |-> 2, name |-> TestLatte, size |-> <<"M">>, price |-> 30]>>
    ELSE <<[id |-> 1, name |-> Espresso, size |-> <<"S">>, price |-> 25],
           [id |-> 2, name |-> Latte, size |-> <<"M">>, price |-> 35],
           [id |-> 3, name |-> Cappuccino, size |-> <<"M">>, price |-> 30],
           [id |-> 4, name |-> Americano, size |-> <<"L">>, price |-> 28]>>

DefaultNextId(test) == IF test THEN 3 ELSE 5

\* A mutant of NameMatches: a substring (prefix) match.
NameMatchesPrefix(d, name) ==
    /\ Len(name) <= Len(d.name)
    /\ SubSeq(Lower(d.name), 1, Len(name)) = Lower(name)

\* drink["name"].lower() == name.lower()
NameMatches(d, name) == Lower(d.name) = Lower(name)

RECURSIVE get_drink_by_name(_, _)
get_drink_by_name(ds, name) ==
    IF ds = <<>> THEN <<>>
    ELSE IF NameMatches(Head(ds), name)
         THEN <<Head(ds)>> \o get_drink_by_name(Tail(ds), name)
         ELSE get_drink_by_name(Tail(ds), name)

\* A mutant of NewDrink: the counter is advanced before it is used.
NewDrinkAdvancedFirst(i, d) ==
    [id |-> next_id[i] + 1, name |-> d.name, size |-> d.size, price |-> d.price]

\* new_drink of add_drink
NewDrink(i, d) ==
    [id |-> next_id[i], name |-> d.name, size |-> d.size, price |-> d.price]

----------------------------------------------------------------------------
\* Responses

NoResponse ==
    [op |-> "none", q |-> <<>>, status |-> 0, errors |-> {}, detail |-> "",
     body |-> <<>>]

\* op and q say which route answered and for which name; errors are the fields
\* of a 422, detail the detail of an HTTPException, body the drinks returned.
Response(op, q, status, errors, detail, body) ==
    [op |-> op, q |-> q, status |-> status, errors |-> errors, detail |-> detail,
     body |-> body]

----------------------------------------------------------------------------
\* What the requests carry

Names == {<<>>, <<" ">>, <<"a">>, <<"a", " ">>}

\* Every name with an accepted size and price; every size, accepted or not, next
\* to an accepted or a refused price; and a body that breaks the three rules.
DrinkInputs ==
    {[name |-> n, size |-> <<"L">>, price |-> 40] : n \in Names}
    \cup {[name |-> <<"a">>, size |-> <<"S">>, price |-> 0],
          [name |-> <<"a">>, size |-> <<"M">>, price |-> -10],
          [name |-> <<"a">>, size |-> <<"X", "L">>, price |-> 40],
          [name |-> <<"a">>, size |-> <<"s">>, price |-> 40],
          [name |-> <<"a">>, size |-> <<"X", "L">>, price |-> 0],
          [name |-> <<>>, size |-> <<"X", "L">>, price |-> -10]}

Queries == {<<" ">>, <<"a">>, <<"A">>, <<"a", " ">>}

\* What the path may hold before the first store is constructed.
Missing == [exists |-> FALSE, content |-> <<>>]
ForeignFiles ==
    {[exists |-> TRUE, content |-> c] :
        c \in {<<Sym("["), Sym("]")>>, <<Sym("{"), Sym("}")>>}}

----------------------------------------------------------------------------
\* The state machine

\* "ready": constructed, no request yet; "served": its latest request is
\* answered; "added": its latest request was a POST answered 201.
Idle(i) == pc[i] \in {"ready", "served", "added"}
InInit(i) == pc[i] \in {"init_open", "init_write"}
InAdd(i) == pc[i] \in {"add_open", "add_write"}

\* No response is on its way out: one response is sent at a time.
Quiet == out = NoResponse

Init ==
    /\ file \in {Missing} \cup ForeignFiles
    /\ testPath \in BOOLEAN
    /\ pc = [i \in Inst |-> "none"]
    /\ drinks = [i \in Inst |-> <<>>]
    /\ next_id = [i \in Inst |-> 1]
    /\ wrote = [i \in Inst |-> FALSE]
    /\ out = NoResponse
    /\ adds = 0

\* DrinkStorage(data_file): __init__ and load_data, up to the call of save_data
\* that _init_default_data makes.
Construct(i) ==
    /\ Quiet
    /\ pc[i] = "none"
    /\ \A j \in Inst : j < i => pc[j] # "none"
    /\ LET data == JsonLoad(file.content) IN
       IF file.exists /\ data.ok /\ data.isdict
       THEN /\ drinks' = [drinks EXCEPT ![i] = data.drinks]
            /\ next_id' = [next_id EXCEPT ![i] =
                             IF data.has_next THEN data.next_id ELSE 1]
            /\ pc' = [pc EXCEPT ![i] = "ready"]
       ELSE /\ drinks' = [drinks EXCEPT ![i] = DefaultDrinks(testPath)]
            /\ next_id' = [next_id EXCEPT ![i] = DefaultNextId(testPath)]
            /\ pc' = [pc EXCEPT ![i] = "init_open"]
    /\ wrote' = [wrote EXCEPT ![i] = FALSE]
    /\ UNCHANGED <<file, testPath, out, adds>>

\* save_data returns: to _init_default_data (the store is constructed) or
\* to add_drink, which returns new_drink, the route's 201 response.
SaveReturns(i) ==
    IF InInit(i)
    THEN /\ pc' = [pc EXCEPT ![i] = "ready"]
         /\ out' = NoResponse
    ELSE /\ pc' = [pc EXCEPT ![i] = "added"]
         /\ out' = Response("POST", <<>>, 201, {}, "", <<drinks[i][Len(drinks[i])]>>)

\* save_data: open(self.data_file, 'w') creates or truncates the file.
SaveOpenOK(i) ==
    /\ Quiet
    /\ pc[i] \in {"init_open", "add_open"}
    /\ file' = [exists |-> TRUE, content |-> <<>>]
    /\ pc' = [pc EXCEPT ![i] = IF InInit(i) THEN "init_write" ELSE "add_write"]
    /\ UNCHANGED <<testPath, drinks, next_id, wrote, out, adds>>

\* save_data: open raises; the except clause prints and save_data returns.
SaveOpenFail(i) ==
    /\ Quiet
    /\ pc[i] \in {"init_open", "add_open"}
    /\ SaveReturns(i)
    /\ UNCHANGED <<file, testPath, drinks, next_id, wrote, adds>>

\* save_data: json.dump and the close of the file put the document at offset 0.
SaveWriteOK(i) ==
    /\ Quiet
    /\ pc[i] \in {"init_write", "add_write"}
    /\ file' = [exists |-> TRUE,
                content |-> Overwrite(file.content, JsonDump(drinks[i], next_id[i]))]
    /\ wrote' = [wrote EXCEPT ![i] = TRUE]
    /\ SaveReturns(i)
    /\ UNCHANGED <<testPath, drinks, next_id, adds>>

\* save_data: the dump raises; the except clause prints and save_data returns.
SaveWriteFail(i) ==
    /\ Quiet
    /\ pc[i] \in {"init_write", "add_write"}
    /\ SaveReturns(i)
    /\ UNCHANGED <<file, testPath, drinks, next_id, wrote, adds>>

\* GET /menu
GetMenu(i) ==
    /\ Quiet
    /\ Idle(i)
    /\ out' = Response("LIST", <<>>, 200, {}, "", drinks[i])
    /\ pc' = [pc EXCEPT ![i] = "served"]
    /\ UNCHANGED <<file, testPath, drinks, next_id, wrote, adds>>

\* GET /menu/{name}
GetDrink(i, name) ==
    /\ Quiet
    /\ Idle(i)
    /\ LET found == get_drink_by_name(drinks[i], name) IN
       out' = IF found = <<>>
              THEN Response("GET", name, 404, {}, "Drink not found", <<>>)
              ELSE Response("GET", name, 200, {}, "", found)
    /\ pc' = [pc EXCEPT ![i] = "served"]
    /\ UNCHANGED <<file, testPath, drinks, next_id, wrote, adds>>

\* POST /menu with a body pydantic rejects: 422 and the handler is not run.
PostInvalid(i, d) ==
    /\ Quiet
    /\ Idle(i)
    /\ ValidationErrors(d) # {}
    /\ out' = Response("POST", <<>>, 422, ValidationErrors(d), "", <<>>)
    /\ pc' = [pc EXCEPT ![i] = "served"]
    /\ UNCHANGED <<file, testPath, drinks, next_id, wrote, adds>>

\* POST /menu with a valid body: add_drink up to its call of save_data.
PostValid(i, d) ==
    /\ Quiet
    /\ Idle(i)
    /\ ValidationErrors(d) = {}
    /\ adds < MaxAdds
    /\ drinks' = [drinks EXCEPT ![i] = Append(@, NewDrink(i, DrinkCreate(d)))]
    /\ next_id' = [next_id EXCEPT ![i] = @ + 1]
    /\ pc' = [pc EXCEPT ![i] = "add_open"]
    /\ wrote' = [wrote EXCEPT ![i] = FALSE]
    /\ adds' = adds + 1
    /\ UNCHANGED <<file, testPath, out>>

\* The response leaves the server.
Send ==
    /\ out # NoResponse
    /\ out' = NoResponse
    /\ UNCHANGED <<file, testPath, pc, drinks, next_id, wrote, adds>>

\* The store is no longer referenced (the request it was built for is over).
Drop(i) ==
    /\ Quiet
    /\ Idle(i)
    /\ pc' = [pc EXCEPT ![i] = "none"]
    /\ drinks' = [drinks EXCEPT ![i] = <<>>]
    /\ next_id' = [next_id EXCEPT ![i] = 1]
    /\ wrote' = [wrote EXCEPT ![i] = FALSE]
    /\ UNCHANGED <<file, testPath, out, adds>>

\* Two stores, from their construction on.
Next ==
    \/ \E i \in Inst :
        \/ Construct(i)
        \/ SaveOpenOK(i)
        \/ SaveOpenFail(i)
        \/ SaveWriteOK(i)
        \/ SaveWriteFail(i)
        \/ GetMenu(i)
        \/ \E name \in Queries : GetDrink(i, name)
        \/ \E d \in DrinkInputs : PostInvalid(i, d)
        \/ \E d \in DrinkInputs : PostValid(i, d)
    \/ Send

Spec == Init /\ [][Next]_vars

----------------------------------------------------------------------------
\* The other specifications

\* The path holds nothing that a store did not write.
InitOwn == Init /\ file = Missing

\* Stores come and go.
NextOwn ==
    \/ \E i \in Inst :
        \/ Construct(i)
        \/ SaveOpenOK(i)
        \/ SaveOpenFail(i)
        \/ SaveWriteOK(i)
        \/ SaveWriteFail(i)
        \/ GetMenu(i)
        \/ \E name \in Queries : GetDrink(i, name)
        \/ \E d \in DrinkInputs : PostInvalid(i, d)
        \/ \E d \in DrinkInputs : PostValid(i, d)
        \/ Drop(i)
    \/ Send

SpecOwn == InitOwn /\ [][NextOwn]_vars

\* One request at a time on the default path, each with a store of its own, as
\* Depends(get_drink_storage) builds them.
NoRequestInProgress == \A j \in Inst : pc[j] \in {"none", "served", "added"}

SeqConstruct(i) == NoRequestInProgress /\ Construct(i)
SeqGetMenu(i) == pc[i] = "ready" /\ GetMenu(i)
SeqGetDrink(i, name) == pc[i] = "ready" /\ GetDrink(i, name)
SeqPostInvalid(i, d) == pc[i] = "ready" /\ PostInvalid(i, d)
SeqPostValid(i, d) == pc[i] = "ready" /\ PostValid(i, d)
SeqDrop(i) == pc[i] # "ready" /\ Drop(i)

InitSeq == Init /\ ~testPath

NextSeq ==
    \/ \E i \in Inst :
        \/ SeqConstruct(i)
        \/ SaveOpenOK(i)
        \/ SaveOpenFail(i)
        \/ SaveWriteOK(i)
        \/ SaveWriteFail(i)
        \/ SeqGetMenu(i)
        \/ \E name \in Queries : SeqGetDrink(i, name)
        \/ \E d \in DrinkInputs : SeqPostInvalid(i, d)
        \/ \E d \in DrinkInputs : SeqPostValid(i, d)
        \/ SeqDrop(i)
    \/ Send

SpecSeq == InitSeq /\ [][NextSeq]_vars

----------------------------------------------------------------------------
\* The claims

Last(s) == s[Len(s)]
Front(s) == SubSeq(s, 1, Len(s) - 1)
AddStarts(i) == Idle(i) /\ pc'[i] = "add_open"
AddReturns(i) == InAdd(i) /\ pc'[i] = "added"
PostAnswered(i) == Idle(i) /\ (pc'[i] = "add_open" \/ out'.op = "POST")
InitReturns(i) == pc[i] \in {"none", "init_open", "init_write"} /\ pc'[i] = "ready"

\* What the document at the path holds, read back, is the state of store i.
FileHolds(f, ds, n) ==
    /\ f.exists
    /\ LET data == JsonLoad(f.content) IN
       /\ data.ok /\ data.isdict /\ data.has_drinks /\ data.has_next
       /\ data.drinks = ds
       /\ data.next_id = n

ValidRecord(d) ==
    /\ d.id > 0
    /\ Strip(d.name) # <<>>
    /\ d.size \in {<<"S">>, <<"M">>, <<"L">>}
    /\ d.price > 0

\* C1: add_drink called with a valid input appends exactly one record, made of
\* the counter's value before the call and the input's name, size and price,
\* advances the counter by one, changes neither again until it returns, and
\* returns that record.
C1_AddContract ==
    [][\A i \in Inst :
         /\ \A d \in DrinkInputs :
              (AddStarts(i) /\ PostValid(i, d)) =>
                /\ drinks'[i] = Append(drinks[i],
                                       [id |-> next_id[i], name |-> d.name,
                                        size |-> d.size, price |-> d.price])
                /\ next_id'[i] = next_id[i] + 1
         /\ InAdd(i) => drinks'[i] = drinks[i] /\ next_id'[i] = next_id[i]
         /\ AddReturns(i) =>
                /\ out'.status = 201
                /\ out'.body = <<Last(drinks'[i])>>
                /\ out'.body[1].id = next_id'[i] - 1
      ]_vars

\* C1 witness: an add has returned the record it appended.
C1_Witness ==
    \E i \in Inst :
        /\ pc[i] = "added"
        /\ out.status = 201
        /\ out.body = <<Last(drinks[i])>>
        /\ out.body[1].id = next_id[i] - 1
        /\ Len(drinks[i]) > 1

\* C2: a store built on a path that held nothing a store did not write keeps
\* its counter above every id it holds, and holds no id twice.
C2_NextIdAboveIds ==
    \A i \in Inst :
        pc[i] # "none" =>
            /\ \A k \in 1..Len(drinks[i]) : drinks[i][k].id < next_id[i]
            /\ \A k, l \in 1..Len(drinks[i]) :
                   k # l => drinks[i][k].id # drinks[i][l].id

\* C2 witness: the two accepted POSTs went one to each store, and one store
\* holds the other's records before its own: it loaded what the other wrote.
C2_Witness ==
    \E i, j \in Inst :
        /\ i # j
        /\ adds = 2
        /\ pc[i] = "added" /\ pc[j] = "added"
        /\ Len(drinks[j]) = Len(DefaultDrinks(testPath)) + 1
        /\ Front(drinks[i]) = drinks[j]

\* C3 as stated: whenever the construction of a store returns, the store holds
\* a non-empty sequence of valid records and the file holds exactly its state.
C3_AlwaysSeededAndPersisted ==
    [][\A i \in Inst :
         InitReturns(i) =>
            /\ drinks'[i] # <<>>
            /\ \A k \in 1..Len(drinks'[i]) : ValidRecord(drinks'[i][k])
            /\ FileHolds(file', drinks'[i], next_id'[i])
      ]_vars

\* C3 amended: a construction that seeds (the file was missing or did not load
\* as an object) returns with the non-empty, valid default records; the file
\* holds exactly the store's state when the seed write completed on a file
\* nobody wrote to since this store opened it, and a seed write that fails
\* is not reported: the construction returns all the same and the failed step
\* leaves the file as it found it.  A construction that loads leaves the file
\* as it was, holds [] and 1 for a member the document lacks, and the file
\* holds exactly the store's state when it has both members.
C3_InitializeAmended ==
    [][\A i \in Inst :
         /\ (InInit(i) /\ pc'[i] = "ready") =>
              /\ drinks'[i] # <<>>
              /\ \A k \in 1..Len(drinks'[i]) : ValidRecord(drinks'[i][k])
              /\ \A k \in 1..Len(drinks'[i]) : drinks'[i][k].id = k
              /\ next_id'[i] = Len(drinks'[i]) + 1
              /\ (SaveWriteOK(i) /\ file.content = <<>>) =>
                     FileHolds(file', drinks'[i], next_id'[i])
              /\ (SaveOpenFail(i) \/ SaveWriteFail(i)) =>
                     file' = file /\ out' = NoResponse
         /\ (pc[i] = "none" /\ pc'[i] = "ready") =>
              LET data == JsonLoad(file.content) IN
              /\ file' = file
              /\ ~data.has_drinks => drinks'[i] = <<>>
              /\ ~data.has_next => next_id'[i] = 1
              /\ (data.has_drinks /\ data.has_next) =>
                     FileHolds(file', drinks'[i], next_id'[i])
      ]_vars

\* C3 witness: a store was seeded and its seed write reached the file.
C3_Witness ==
    \E i \in Inst :
        /\ pc[i] = "ready"
        /\ wrote[i]
        /\ drinks[i] = DefaultDrinks(testPath)
        /\ FileHolds(file, drinks[i], next_id[i])

\* C4 as stated: a POST whose name is empty or only whitespace is answered 422
\* with an error on name and creates nothing; any other accepted name is
\* stored stripped of its leading and trailing whitespace.
C4_NameRule ==
    [][\A i \in Inst : \A d \in DrinkInputs :
         (PostAnswered(i) /\ (PostInvalid(i, d) \/ PostValid(i, d))) =>
            IF Strip(d.name) = <<>>
            THEN /\ out'.status = 422
                 /\ "name" \in out'.errors
                 /\ drinks' = drinks
            ELSE PostValid(i, d) => Last(drinks'[i]).name = Strip(d.name)
      ]_vars

\* C5 as stated: when the write of the document cannot complete during an add,
\* the add is answered with an error, not with the new record as a success.
C5_PersistenceError ==
    [][\A i \in Inst :
         (InAdd(i) /\ (SaveOpenFail(i) \/ SaveWriteFail(i))) =>
            /\ out'.status # 201
            /\ out'.status = 500
      ]_vars

\* C6 as stated: with one request at a time and a store per request, once a
\* POST was answered 201 with a record, a following GET for that record's name
\* is answered 200 with that record in its body.
C6_PostThenGet ==
    [][\A i, j \in Inst : \A q \in Queries :
         (/\ pc[i] = "added"
          /\ out'.op = "GET"
          /\ q = Last(drinks[i]).name
          /\ SeqGetDrink(j, q)) =>
            /\ out'.status = 200
            /\ \E k \in 1..Len(out'.body) : out'.body[k] = Last(drinks[i])
      ]_vars

\* C7: when the file holds what save_data writes for the state of a store, a
\* store constructed on the path holds the same records in the same order and
\* the same counter, and the file is not changed.
C7_RoundTrip ==
    [][\A i, k \in Inst :
         (/\ k # i
          /\ pc[i] = "none" /\ pc'[i] # "none"
          /\ pc[k] # "none"
          /\ file.exists
          /\ file.content = JsonDump(drinks[k], next_id[k])
          /\ Construct(i)) =>
            /\ pc'[i] = "ready"
            /\ drinks'[i] = drinks[k]
            /\ next_id'[i] = next_id[k]
            /\ file' = file
      ]_vars

\* C7 witness: a store that has served no request holds the records and the
\* counter of the store whose add was saved, the added record included.
C7_Witness ==
    \E i, k \in Inst :
        /\ i # k
        /\ pc[k] = "added" /\ wrote[k]
        /\ pc[i] = "ready"
        /\ drinks[i] = drinks[k]
        /\ next_id[i] = next_id[k]
        /\ file.content = JsonDump(drinks[k], next_id[k])

\* C8: GET /menu/{name} finds exactly the records, in stored order, whose name
\* equals the query once both are lower-cased, changes no store, and answers
\* 404 "Drink not found" exactly when it finds none and 200 with them otherwise.
C8_FindByName ==
    [][\A i \in Inst : \A q \in Queries :
         (out'.op = "GET" /\ GetDrink(i, q)) =>
            LET Same(d) == /\ Len(d.name) = Len(q)
                           /\ \A k \in 1..Len(q) :
                                  LowerChar(d.name[k]) = LowerChar(q[k])
                found == SelectSeq(drinks[i], Same)
            IN  /\ out'.body = found
                /\ drinks' = drinks
                /\ next_id' = next_id
                /\ file' = file
                /\ found = <<>> =>
                       out'.status = 404 /\ out'.detail = "Drink not found"
                /\ found # <<>> => out'.status = 200
      ]_vars

\* C8 witness: a query in another case found a record, and only that record of
\* a store that holds others.
C8_Witness ==
    /\ out.op = "GET"
    /\ out.status = 200
    /\ out.q = <<"A">>
    /\ Len(out.body) = 1
    /\ out.body[1].name = <<"a">>
    /\ \E i \in Inst : pc[i] = "served" /\ Len(drinks[i]) > 1

\* C9: a POST is answered with an error on size exactly when its size is not
\* S, M or L and with an error on price exactly when its price is not above 0,
\* both in one response when both rules are broken; a rejected POST adds no
\* record and leaves the counter.
C9_SizePriceIndependent ==
    [][\A i \in Inst : \A d \in DrinkInputs :
         (PostAnswered(i) /\ (PostInvalid(i, d) \/ PostValid(i, d))) =>
            LET badSize  == d.size \notin {<<"S">>, <<"M">>, <<"L">>}
                badPrice == d.price <= 0
            IN  /\ ("size" \in out'.errors) <=> badSize
                /\ ("price" \in out'.errors) <=> badPrice
                /\ (badSize \/ badPrice) => out'.status = 422
                /\ out'.status = 422 => drinks' = drinks /\ next_id' = next_id
      ]_vars

\* C9 witness: one response reported size and price together.
C9_Witness ==
    /\ out.op = "POST"
    /\ out.status = 422
    /\ out.errors = {"size", "price"}

\* Two stores hold the same records but for the one each added last, and the
\* same counter: each added one record to the same document.
AddedToSameDocument(i, j) ==
    /\ i # j
    /\ drinks[i] # <<>> /\ drinks[j] # <<>>
    /\ Front(drinks[i]) = Front(drinks[j])
    /\ next_id[i] = next_id[j]

\* C10 as stated: after the adds of two stores built on the same document, the
\* file holds the state of the store that wrote last, and no add reports an
\* error.
C10_LastWriterWins ==
    [][\A i, j \in Inst :
         /\ (/\ AddedToSameDocument(i, j)
             /\ pc[i] = "added" /\ wrote[i]
             /\ pc[j] = "add_write"
             /\ SaveWriteOK(j)) =>
                FileHolds(file', drinks[j], next_id[j])
         /\ AddReturns(i) => out'.status = 201
      ]_vars

\* What holds of the two adds: when the document written last is not shorter
\* than what the file holds at that moment (it holds nothing when the other
\* store wrote before this one opened the file), the file then holds the last
\* writer's records, its new record last and the other store's new record
\* nowhere.
LastWriterWinsWhenNotShorter ==
    [][\A i, j \in Inst :
         /\ (/\ AddedToSameDocument(i, j)
             /\ pc[i] = "added" /\ wrote[i]
             /\ pc[j] = "add_write"
             /\ SaveWriteOK(j)
             /\ Len(JsonDump(drinks[j], next_id[j])) >= Len(file.content)) =>
                /\ FileHolds(file', drinks[j], next_id[j])
                /\ LET data == JsonLoad(file'.content) IN
                   /\ Len(data.drinks) = Len(Front(drinks[i])) + 1
                   /\ Last(data.drinks) = Last(drinks[j])
                   /\ Last(drinks[i]) # Last(drinks[j]) =>
                          \A k \in 1..Len(data.drinks) :
                              data.drinks[k] # Last(drinks[i])
         /\ AddReturns(i) => out'.status = 201
      ]_vars

\* Both adds were saved and returned, and the file holds the state of one
\* store, whose new record is not the other's.
LastWriterWon ==
    \E i, j \in Inst :
        /\ AddedToSameDocument(i, j)
        /\ pc[i] = "added" /\ wrote[i]
        /\ pc[j] = "added" /\ wrote[j]
        /\ Last(drinks[i]) # Last(drinks[j])
        /\ FileHolds(file, drinks[j], next_id[j])

\* C10, where it fails: both adds were saved and returned, and the file holds
\* the shorter document followed by the end of the longer one; it no longer
\* parses.
C10_TornFile ==
    \E i, j \in Inst :
        /\ AddedToSameDocument(i, j)
        /\ pc[i] = "added" /\ wrote[i]
        /\ pc[j] = "added" /\ wrote[j]
        /\ Len(file.content) > Len(JsonDump(drinks[j], next_id[j]))
        /\ SubSeq(file.content, 1, Len(JsonDump(drinks[j], next_id[j])))
               = JsonDump(drinks[j], next_id[j])
        /\ ~JsonLoad(file.content).ok

====
